---- MODULE Spec2Model ----
(***************************************************************************)
(* The request handlers of biostar3/forum/post_views.py as a state machine. *)
(* The stored data are the Post, PostView and Vote tables and the tags of   *)
(* the posts.  A post_view request is a sequence of steps, one per call    *)
(* that reads or writes the stored data, so that the steps of concurrent   *)
(* requests interleave as the web server's workers interleave them.  The   *)
(* list handlers read the stored data once and are one step each.          *)
(***************************************************************************)
EXTENDS Integers, Sequences, FiniteSets

VARIABLES
    posts,      \* the Post table: posts[id] is the row with that id
    postviews,  \* the PostView table, in insertion order
    votes,      \* the Vote table
    tags,       \* tags[id]: the names of the tags of post id
    users,      \* the User table
    now,        \* the time of the last reading of the clock
    pc,         \* pc[r]: where worker r is in post_view
    request,    \* request[r]: pk, request.user and the client address
    local,      \* local[r]: the local variables of post_view / update_post_views
    response,   \* response[r]: what post_view returned
    logged,     \* logged[r]: logger.error was called during the request
    listing,    \* the last response of a list handler
    started,    \* number of post_view requests received so far
    raised,     \* some call of update_post_views has raised an exception
    before,     \* the tables as they were when the last request entered
    served      \* served[pk]: pages rendered for authenticated viewers of pk

vars == <<posts, postviews, votes, tags, users, now, pc, request, local, response,
          logged, listing, started, raised, before, served>>

db == <<posts, postviews, votes, tags, users>>

-----------------------------------------------------------------------------
(* Bounds of the model.                                                     *)

MaxTime == 2
MaxRequests == 2
POST_VIEW_INTERVAL == 2

Workers == {"r1", "r2"}
Addresses == {"ip1", "ip2"}
Anonymous == "anon"

QUESTION == "QUESTION"
ANSWER == "ANSWER"
COMMENT == "COMMENT"

UP == "UP"
DOWN == "DOWN"
BOOKMARK == "BOOKMARK"
ACCEPT == "ACCEPT"
VoteTypes == {UP, DOWN, BOOKMARK, ACCEPT}

None == [id |-> 0]

-----------------------------------------------------------------------------
(* The entities, owned by the ORM layer.                                    *)

Row(type, parent, root, author) ==
    [type |-> type, parent |-> parent, root |-> root, author |-> author,
     view_count |-> 0]

\* The object the ORM builds from row id of the Post table.
PostObj(id) ==
    [id |-> id, type |-> posts[id].type, parent |-> posts[id].parent,
     root |-> posts[id].root, author |-> posts[id].author,
     view_count |-> posts[id].view_count]

Ids == 1..Len(posts)

is_toplevel(p) == p.parent = p.id

is_authenticated(user) == user # Anonymous

get_absolute_url(p) == [root |-> p.root, anchor |-> p.id]

\* A post of a thread: the fields post_view reads.
ThreadObj(id) ==
    [id |-> id, type |-> posts[id].type, parent |-> posts[id].parent,
     root |-> posts[id].root]

RECURSIVE ObjectsOf(_)
ObjectsOf(ids) ==
    IF ids = << >> THEN << >>
    ELSE <<ThreadObj(Head(ids))>> \o ObjectsOf(Tail(ids))

RECURSIVE Upto(_)
Upto(n) == IF n = 0 THEN << >> ELSE Append(Upto(n - 1), n)

\* query.get_thread: the root post and its descendants, in creation order.
get_thread(post, user) ==
    LET InThread(i) == posts[i].root = post.id
    IN  ObjectsOf(SelectSeq(Upto(Len(posts)), InThread))

\* A site with one thread, viewed once before, and one registered user.
InitPosts ==
    << [Row(QUESTION, 1, 1, "u1") EXCEPT !.view_count = 1],
       Row(ANSWER, 1, 1, "u1") >>

InitVotes ==
    { [author |-> "u1", post |-> 1, type |-> UP],
      [author |-> "u1", post |-> 2, type |-> BOOKMARK],
      [author |-> "u1", post |-> 2, type |-> DOWN] }

InitTags == << {<<"a">>}, {<<"b">>} >>

Toplevel0 == {i \in 1..Len(InitPosts) : InitPosts[i].parent = i}

Idle == [post |-> None, ip |-> "", since |-> 0, thread |-> << >>,
         page |-> None, comment |-> None]

NoRequest == [pk |-> 0, user |-> Anonymous, addr |-> ""]

\* No request has been received yet.
Start ==
    /\ postviews = << >>
    /\ now = 0
    /\ pc = [r \in Workers |-> "idle"]
    /\ request = [r \in Workers |-> NoRequest]
    /\ local = [r \in Workers |-> Idle]
    /\ response = [r \in Workers |-> [kind |-> "none"]]
    /\ logged = [r \in Workers |-> FALSE]
    /\ listing = [kind |-> "none"]
    /\ started = 0
    /\ raised = FALSE
    /\ before = <<posts, postviews>>
    /\ served = [i \in {k \in 1..Len(posts) : posts[k].parent = k} |-> 0]

Init ==
    /\ posts = InitPosts
    /\ votes = InitVotes
    /\ tags = InitTags
    /\ users = {"u1"}
    /\ Start

-----------------------------------------------------------------------------
(* update_post_views, one step per call.  The two calls before the try     *)
(* block propagate what they raise; the three inside it are logged.        *)

Goto(r, label) == pc' = [pc EXCEPT ![r] = label]

\* An exception leaves post_view: the framework answers with an error page.
Propagate(r) ==
    /\ Goto(r, "error")
    /\ response' = [response EXCEPT ![r] = [kind |-> "error"]]
    /\ raised' = TRUE
    /\ UNCHANGED <<db, now, request, local, logged, listing, started, before, served>>

\* except Exception, exc: logger.error(exc)
Swallow(r) ==
    /\ Goto(r, "get_thread")
    /\ logged' = [logged EXCEPT ![r] = TRUE]
    /\ raised' = TRUE
    /\ UNCHANGED <<db, now, request, local, response, listing, started, before, served>>

remote_ip(r) ==
    /\ pc[r] = "remote_ip"
    /\ local' = [local EXCEPT ![r].ip = request[r].addr]
    /\ Goto(r, "ago")
    /\ UNCHANGED <<db, now, request, response, logged, listing, started, raised,
                   before, served>>

remote_ip_raises(r) ==
    /\ pc[r] = "remote_ip"
    /\ Propagate(r)

\* The clock never runs backwards: a reading is no earlier than the last one.
Clock == now..MaxTime

ago(r) ==
    /\ pc[r] = "ago"
    /\ \E t \in Clock :
          /\ now' = t
          /\ local' = [local EXCEPT ![r].since = t - POST_VIEW_INTERVAL]
    /\ Goto(r, "filter")
    /\ UNCHANGED <<db, request, response, logged, listing, started, raised,
                   before, served>>

ago_raises(r) ==
    /\ pc[r] = "ago"
    /\ Propagate(r)

\* The filter with date__gte in place of date__gt.
RecentViewInclusive(ip, post, since) ==
    \E i \in 1..Len(postviews) :
        /\ postviews[i].ip = ip
        /\ postviews[i].post = post.id
        /\ postviews[i].date >= since

\* PostView.objects.filter(ip=ip, post=post, date__gt=since) is not empty
RecentView(ip, post, since) ==
    \E i \in 1..Len(postviews) :
        /\ postviews[i].ip = ip
        /\ postviews[i].post = post.id
        /\ postviews[i].date > since

filter(r) ==
    /\ pc[r] = "filter"
    /\ IF RecentView(local[r].ip, local[r].post, local[r].since)
       THEN Goto(r, "get_thread")
       ELSE Goto(r, "create")
    /\ UNCHANGED <<db, now, request, local, response, logged, listing, started,
                   raised, before, served>>

filter_raises(r) ==
    /\ pc[r] = "filter"
    /\ Swallow(r)

create(r) ==
    /\ pc[r] = "create"
    /\ \E t \in Clock :
          /\ now' = t
          /\ postviews' = Append(postviews,
                 [ip |-> local[r].ip, post |-> local[r].post.id, date |-> t])
    /\ Goto(r, "update")
    /\ UNCHANGED <<posts, votes, tags, users, request, local, response, logged,
                   listing, started, raised, before, served>>

create_raises(r) ==
    /\ pc[r] = "create"
    /\ Swallow(r)

\* A read-modify-write of the counter of the object loaded with the request.
SaveViewCount(r) ==
    [posts EXCEPT ![local[r].post.id].view_count = local[r].post.view_count + 1]

\* Post.objects.filter(id=post.id).update(view_count=F('view_count') + 1)
IncrementViewCount(r) ==
    [posts EXCEPT ![local[r].post.id].view_count = @ + 1]

update(r) ==
    /\ pc[r] = "update"
    /\ posts' = IncrementViewCount(r)
    /\ Goto(r, "get_thread")
    /\ UNCHANGED <<postviews, votes, tags, users, now, request, local, response, logged,
                   listing, started, raised, before, served>>

update_raises(r) ==
    /\ pc[r] = "update"
    /\ Swallow(r)

-----------------------------------------------------------------------------
(* post_view: the thread page.                                              *)

\* for post_id, vote_type in votes: store.setdefault(vote_type, set()).add(post_id)
RECURSIVE Collect(_, _)
Collect(pairs, store) ==
    IF pairs = {} THEN store
    ELSE LET pair == CHOOSE x \in pairs : TRUE
             post_id == pair[1]
             vote_type == pair[2]
             old == IF vote_type \in DOMAIN store THEN store[vote_type] ELSE {}
         IN  Collect(pairs \ {pair},
                     [t \in DOMAIN store \cup {vote_type} |->
                         IF t = vote_type THEN old \cup {post_id} ELSE store[t]])

\* The query without its author=user condition.
VotesOfAnyone(pids, user) ==
    {<<v.post, v.type>> : v \in {w \in votes : w.post \in pids}}

\* Vote.objects.filter(post_id__in=pids, author=user).values_list("post_id", "type")
VotesOf(pids, user) ==
    {<<v.post, v.type>> : v \in {w \in votes : w.post \in pids /\ w.author = user}}

\* store: the ids of the posts the user has voted on, by vote type.
Store(thread, user) ==
    LET empty == [t \in {UP, BOOKMARK} |-> {}]
        pids == {thread[i].id : i \in 1..Len(thread)}
    IN  IF is_authenticated(user) THEN Collect(VotesOf(pids, user), empty) ELSE empty

\* def decorator(p): p.has_vote, p.has_bookmark
decorator(p, upvotes, bookmarks) ==
    [id |-> p.id, type |-> p.type, parent |-> p.parent, root |-> p.root,
     has_vote |-> p.id \in upvotes, has_bookmark |-> p.id \in bookmarks]

RECURSIVE Map(_, _, _)
Map(thread, upvotes, bookmarks) ==
    IF thread = << >> THEN << >>
    ELSE <<decorator(Head(thread), upvotes, bookmarks)>>
            \o Map(Tail(thread), upvotes, bookmarks)

IsAnswer(p) == p.type = ANSWER
IsComment(p) == p.type = COMMENT

\* An OrderedDict is the sequence of its items, in insertion order.
Keys(dict) == {dict[i].key : i \in 1..Len(dict)}

\* A comment filed under its own id.
SetDefaultAppendOwn(dict, comment) ==
    Append(dict, [key |-> comment.id, value |-> <<comment>>])

\* post.comments.setdefault(comment.parent.id, []).append(comment)
SetDefaultAppend(dict, comment) ==
    IF comment.parent \in Keys(dict)
    THEN [i \in 1..Len(dict) |->
            IF dict[i].key = comment.parent
            THEN [key |-> dict[i].key, value |-> Append(dict[i].value, comment)]
            ELSE dict[i]]
    ELSE Append(dict, [key |-> comment.parent, value |-> <<comment>>])

RECURSIVE Bucket(_, _)
Bucket(comment_list, dict) ==
    IF comment_list = << >> THEN dict
    ELSE Bucket(Tail(comment_list), SetDefaultAppend(dict, Head(comment_list)))

\* The attributes post_view sets on the root post for the template.
Page(post, thread, user) ==
    LET store == Store(thread, user)
        decorated == Map(thread, store[UP], store[BOOKMARK])
        root == decorator(post, store[UP], store[BOOKMARK])
    IN  [id |-> post.id,
         upvotes |-> store[UP],
         bookmarks |-> store[BOOKMARK],
         has_vote |-> root.has_vote,
         has_bookmark |-> root.has_bookmark,
         thread |-> decorated,
         answers |-> SelectSeq(decorated, IsAnswer),
         comments |-> Bucket(SelectSeq(decorated, IsComment), << >>)]

\* The handler without its test for a toplevel post.
post_view_any(r, pk, user, addr) ==
    /\ pc[r] = "idle"
    /\ pk \in Ids
    /\ started < MaxRequests
    /\ started' = started + 1
    /\ request' = [request EXCEPT ![r] = [pk |-> pk, user |-> user, addr |-> addr]]
    /\ local' = [local EXCEPT ![r].post = PostObj(pk)]
    /\ Goto(r, "remote_ip")
    /\ UNCHANGED <<db, now, response, logged, listing, raised, served>>

\* @auth.valid_post loads the post; a post below the top level redirects.
post_view(r, pk, user, addr) ==
    /\ pc[r] = "idle"
    /\ pk \in Ids
    /\ started < MaxRequests
    /\ started' = started + 1
    /\ request' = [request EXCEPT ![r] = [pk |-> pk, user |-> user, addr |-> addr]]
    /\ local' = [local EXCEPT ![r].post = PostObj(pk)]
    /\ IF ~ is_toplevel(PostObj(pk))
       THEN /\ Goto(r, "done")
            /\ response' = [response EXCEPT ![r] =
                   [kind |-> "redirect", to |-> get_absolute_url(PostObj(pk))]]
       ELSE /\ Goto(r, "remote_ip")
            /\ UNCHANGED response
    /\ UNCHANGED <<db, now, logged, listing, raised, served>>

fetch_thread(r) ==
    /\ pc[r] = "get_thread"
    /\ local' = [local EXCEPT ![r].thread = get_thread(local[r].post, request[r].user)]
    /\ Goto(r, "decorate")
    /\ UNCHANGED <<db, now, request, response, logged, listing, started, raised,
                   before, served>>

\* The handler without its test of user.is_authenticated() before the comment.
decorate_always(r) ==
    /\ pc[r] = "decorate"
    /\ LET page == Page(local[r].post, local[r].thread, request[r].user)
       IN  local' = [local EXCEPT ![r].page = page, ![r].thread = page.thread]
    /\ Goto(r, "create_comment")
    /\ UNCHANGED <<db, now, request, response, logged, listing, started, raised,
                   before, served>>

decorate(r) ==
    /\ pc[r] = "decorate"
    /\ LET page == Page(local[r].post, local[r].thread, request[r].user)
       IN  local' = [local EXCEPT ![r].page = page, ![r].thread = page.thread]
    /\ IF is_authenticated(request[r].user)
       THEN Goto(r, "create_comment")
       ELSE Goto(r, "render")
    /\ UNCHANGED <<db, now, request, response, logged, listing, started, raised,
                   before, served>>

\* random.choice(thread + [post])
Parents(r) ==
    {local[r].thread[i].id : i \in 1..Len(local[r].thread)} \cup {local[r].post.id}

\* models.Post.objects.create(type=COMMENT, parent=parent, content=text, author=u)
create_comment(r) ==
    /\ pc[r] = "create_comment"
    /\ \E u \in users, parent \in Parents(r) :
          /\ posts' = Append(posts, Row(COMMENT, parent, posts[parent].root, u))
          /\ tags' = Append(tags, {})
          /\ local' = [local EXCEPT ![r].comment =
                 [id |-> Len(posts) + 1, type |-> COMMENT, parent |-> parent]]
    /\ Goto(r, "render")
    /\ UNCHANGED <<postviews, votes, users, now, request, response, logged, listing, started,
                   raised, before, served>>

render(r) ==
    /\ pc[r] = "render"
    /\ response' = [response EXCEPT ![r] = [kind |-> "page", post |-> local[r].page]]
    /\ served' = IF is_authenticated(request[r].user)
                 THEN [served EXCEPT ![request[r].pk] = @ + 1]
                 ELSE served
    /\ Goto(r, "done")
    /\ UNCHANGED <<db, now, request, local, logged, listing, started, raised, before>>

\* The response is sent and the worker takes the next request.
respond(r) ==
    /\ pc[r] \in {"done", "error"}
    /\ Goto(r, "idle")
    /\ request' = [request EXCEPT ![r] = NoRequest]
    /\ local' = [local EXCEPT ![r] = Idle]
    /\ response' = [response EXCEPT ![r] = [kind |-> "none"]]
    /\ logged' = [logged EXCEPT ![r] = FALSE]
    /\ UNCHANGED <<db, now, listing, started, raised, before, served>>

\* The steps of a request in which no call raises.
Step(r) ==
    \/ remote_ip(r)
    \/ ago(r)
    \/ filter(r)
    \/ create(r)
    \/ update(r)
    \/ fetch_thread(r)
    \/ decorate(r)
    \/ create_comment(r)
    \/ render(r)

\* The calls of update_post_views that raise.
Raise(r) ==
    \/ remote_ip_raises(r)
    \/ ago_raises(r)
    \/ filter_raises(r)
    \/ create_raises(r)
    \/ update_raises(r)

Viewers == {Anonymous, "u1"}

Receive(r) ==
    \E pk \in Ids, user \in Viewers, addr \in Addresses :
        post_view(r, pk, user, addr) /\ UNCHANGED before

\* Two workers, each serving one request, so that the requests overlap.
Next ==
    \/ \E r \in Workers : Receive(r)
    \/ \E r \in Workers : Step(r)
    \/ \E r \in Workers : Raise(r)

Spec == Init /\ [][Next]_vars

\* A site with two threads and two registered users.
SitePosts ==
    << [Row(QUESTION, 1, 1, "u1") EXCEPT !.view_count = 1],
       Row(ANSWER, 1, 1, "u2"),
       Row(QUESTION, 3, 3, "u2") >>

SiteVotes ==
    InitVotes \cup { [author |-> "u2", post |-> 2, type |-> UP],
                     [author |-> "u2", post |-> 3, type |-> BOOKMARK] }

SiteTags == << {<<"a">>}, {<<"b">>}, {<<"a">>, <<"b">>} >>

SiteInit ==
    /\ posts = SitePosts
    /\ votes = SiteVotes
    /\ tags = SiteTags
    /\ users = {"u1", "u2"}
    /\ Start

\* One worker serving one request after another, every call of which returns.
SeqReceive(r) ==
    \E pk \in Ids, user \in Viewers, addr \in Addresses :
        post_view(r, pk, user, addr) /\ before' = <<posts, postviews>>

SeqNext ==
    \E r \in {"r1"} : SeqReceive(r) \/ Step(r) \/ respond(r)

SeqSpec == SiteInit /\ [][SeqNext]_vars

-----------------------------------------------------------------------------
(* The list handlers.  Names and queries are strings: sequences of          *)
(* characters.                                                              *)

MaxNameLen == 3

Chars == {"a", "b", "+"}

Strings(n) == UNION {[1..k -> Chars] : k \in 0..n}

Range(seq) == {seq[i] : i \in 1..Len(seq)}

\* name.split("+")
RECURSIVE split(_)
split(name) ==
    IF "+" \notin Range(name) THEN <<name>>
    ELSE LET i == CHOOSE k \in 1..Len(name) :
                     /\ name[k] = "+"
                     /\ \A j \in 1..(k - 1) : name[j] # "+"
         IN  <<SubSeq(name, 1, i - 1)>> \o split(SubSeq(name, i + 1, Len(name)))

\* query.get_toplevel_posts: the ids of the toplevel posts.
get_toplevel_posts(user) ==
    LET Top(i) == posts[i].parent = i
    IN  SelectSeq(Upto(Len(posts)), Top)

RECURSIVE Repeat(_, _)
Repeat(x, n) == IF n = 0 THEN << >> ELSE <<x>> \o Repeat(x, n - 1)

\* A filter that keeps the posts carrying every one of the names.
RECURSIVE filter_tags_all(_, _)
filter_tags_all(ids, names) ==
    IF ids = << >> THEN << >>
    ELSE (IF Range(names) \subseteq tags[Head(ids)] THEN <<Head(ids)>> ELSE << >>)
            \o filter_tags_all(Tail(ids), names)

\* posts.filter(tags__name__in=names): the join of the posts with their tags,
\* one row for each tag of a post whose name is among the names.
RECURSIVE filter_tags_in(_, _)
filter_tags_in(ids, names) ==
    IF ids = << >> THEN << >>
    ELSE Repeat(Head(ids), Cardinality(tags[Head(ids)] \cap Range(names)))
            \o filter_tags_in(Tail(ids), names)

\* query.recent_votes
recent_votes == votes

Quiet == UNCHANGED <<now, pc, request, local, response, logged, started, raised,
                     before, served>>

\* A list handler that also counts a view of every post it lists.
post_list_counting(ids, info) ==
    /\ listing' = [template |-> "post_list.html", posts |-> ids,
                   recent_votes |-> recent_votes, messages |-> info]
    /\ posts' = [i \in 1..Len(posts) |->
                    IF i \in Range(ids)
                    THEN [posts[i] EXCEPT !.view_count = @ + 1]
                    ELSE posts[i]]
    /\ UNCHANGED <<postviews, votes, tags, users>>
    /\ Quiet

\* post_list renders the posts it is given; the paginator and the template
\* are the framework's.
post_list(ids, info) ==
    /\ listing' = [template |-> "post_list.html", posts |-> ids,
                   recent_votes |-> recent_votes, messages |-> info]
    /\ UNCHANGED db
    /\ Quiet

tag_filter(name) ==
    post_list(filter_tags_in(get_toplevel_posts(Anonymous), split(name)),
              <<"Filtering for tags: %s", name>>)

home == post_list(get_toplevel_posts(Anonymous), << >>)

\* query.get_all_posts: the posts created by the user.
get_all_posts(user) ==
    LET By(i) == posts[i].author = user
    IN  SelectSeq(Upto(Len(posts)), By)

posts_by_user(user) ==
    post_list(get_all_posts(user), <<"Posts by: %s", user>>)

\* query.get_posts_by_vote: the posts on which the user has a vote of these types.
get_posts_by_vote(user, vote_types) ==
    LET Voted(i) == \E v \in votes :
            v.post = i /\ v.author = user /\ v.type \in vote_types
    IN  SelectSeq(Upto(Len(posts)), Voted)

upvoted_posts(user) ==
    post_list(get_posts_by_vote(user, {BOOKMARK, UP}), <<"Upvoted posts by: %s", user>>)

\* query.get_my_bookmarks
my_bookmarks(user) ==
    post_list(get_posts_by_vote(user, {BOOKMARK}), <<"Bookmarks for: %s", user>>)

\* name__icontains=q, over lower-case names
icontains(name, q) ==
    \E i \in 0..(Len(name) - Len(q)) : SubSeq(name, i + 1, i + Len(q)) = q

Rank(c) == IF c = "+" THEN 0 ELSE IF c = "a" THEN 1 ELSE 2

RECURSIVE Before(_, _)
Before(x, y) ==
    IF x = << >> THEN y # << >>
    ELSE IF y = << >> THEN FALSE
    ELSE IF Head(x) # Head(y) THEN Rank(Head(x)) < Rank(Head(y))
    ELSE Before(Tail(x), Tail(y))

\* tags.order_by("name")
RECURSIVE order_by_name(_)
order_by_name(names) ==
    IF names = {} THEN << >>
    ELSE LET first == CHOOSE x \in names : \A y \in names \ {x} : Before(x, y)
         IN  <<first>> \o order_by_name(names \ {first})

\* Tag.objects: the tags in use.
Tag == UNION {tags[i] : i \in 1..Len(tags)}

tag_list(q) ==
    /\ listing' = [template |-> "tag_list.html",
                   tags |-> order_by_name(IF q # << >>
                                          THEN {t \in Tag : icontains(t, q)}
                                          ELSE Tag),
                   q |-> q]
    /\ UNCHANGED db
    /\ Quiet

UserGroup == { [name |-> "g1", public |-> TRUE], [name |-> "g2", public |-> FALSE] }

group_list ==
    /\ listing' = [template |-> "post_list.html",
                   public_groups |-> {g \in UserGroup : g.public}]
    /\ UNCHANGED db
    /\ Quiet

\* search.plain answers with some of the posts: the search backend decides.
search_results(q, found) ==
    /\ IF q = << >>
       THEN listing' = [redirect |-> "home"]
       ELSE listing' = [template |-> "post_search_results.html",
                        posts |-> SelectSeq(Upto(Len(posts)), LAMBDA i : i \in found),
                        recent_votes |-> recent_votes, q |-> q]
    /\ UNCHANGED db
    /\ Quiet

\* No request is being served.
Free == listing = [kind |-> "none"] /\ \A r \in Workers : pc[r] = "idle"

\* One tag filter, over every tagging of the site and every name.
TagInit ==
    /\ posts = SitePosts
    /\ votes = SiteVotes
    /\ users = {"u1", "u2"}
    /\ tags \in [1..3 -> SUBSET {<<"a">>, <<"b">>, <<"a", "b">>}]
    /\ Start

TagNext == Free /\ \E name \in Strings(MaxNameLen) : tag_filter(name)

TagSpec == TagInit /\ [][TagNext]_vars

\* The response of a list handler is sent.
deliver ==
    /\ listing # [kind |-> "none"]
    /\ listing' = [kind |-> "none"]
    /\ UNCHANGED db
    /\ Quiet

\* Every handler of the file, the requests one after another, every call of
\* which returns.
Queries == Strings(1)

ListNext ==
    \/ \E q \in Queries : tag_list(q)
    \/ \E name \in Queries \cup {<<"a", "+", "b">>} : tag_filter(name)
    \/ \E user \in users : posts_by_user(user)
    \/ \E user \in users : upvoted_posts(user)
    \/ \E user \in users : my_bookmarks(user)
    \/ home
    \/ group_list
    \/ \E q \in Queries, found \in {{}, {1}, Ids} : search_results(q, found)

HandlerReceive(r) ==
    \E pk \in Ids, user \in Viewers, addr \in Addresses :
        post_view(r, pk, user, addr) /\ UNCHANGED before

HandlerNext ==
    \/ Free /\ ListNext
    \/ deliver
    \/ \E r \in {"r1"} : (Free /\ HandlerReceive(r)) \/ Step(r) \/ respond(r)

HandlerSpec == SiteInit /\ [][HandlerNext]_vars

-----------------------------------------------------------------------------
(* The page of a thread, over every thread and every set of votes.          *)

MaxThread == 4
MaxVotes == 2

Orders(n) == {f \in [1..n -> 1..n] : \A i, j \in 1..n : f[i] = f[j] => i = j}

\* A thread of n posts: a question and its answers and comments, each the
\* child of an earlier post.
Threads(n) ==
    {p \in [1..n -> [type : {QUESTION, ANSWER, COMMENT}, parent : 1..n, root : {1},
                     author : {"u1"}, view_count : {0, 1}]] :
        /\ p[1].type = QUESTION /\ p[1].parent = 1 /\ p[1].view_count = 1
        /\ \A i \in 2..n : p[i].type # QUESTION /\ p[i].parent < i /\ p[i].view_count = 0}

\* A request that has fetched its thread, the posts in any order; before keeps
\* the thread as fetched.
Fetched(r, user, order) ==
    /\ pc = [w \in Workers |-> IF w = r THEN "decorate" ELSE "idle"]
    /\ request = [w \in Workers |->
                    IF w = r THEN [pk |-> 1, user |-> user, addr |-> "ip1"]
                    ELSE NoRequest]
    /\ local = [w \in Workers |->
                  IF w = r
                  THEN [Idle EXCEPT !.post = PostObj(1), !.ip = "ip1",
                                    !.since = 0 - POST_VIEW_INTERVAL,
                                    !.thread = [i \in 1..Len(order) |-> ThreadObj(order[i])]]
                  ELSE Idle]
    /\ postviews = <<[ip |-> "ip1", post |-> 1, date |-> 0]>>
    /\ now = 0
    /\ response = [w \in Workers |-> [kind |-> "none"]]
    /\ logged = [w \in Workers |-> FALSE]
    /\ listing = [kind |-> "none"]
    /\ started = 1
    /\ raised = FALSE
    /\ before = <<posts, postviews, [i \in 1..Len(order) |-> ThreadObj(order[i])]>>
    /\ served = [i \in {k \in 1..Len(posts) : posts[k].parent = k} |-> 0]

BucketInit ==
    /\ \E n \in 1..MaxThread : posts \in Threads(n)
    /\ votes = InitVotes
    /\ tags = [i \in 1..Len(posts) |-> {}]
    /\ users = {"u1"}
    /\ \E order \in Orders(Len(posts)) : Fetched("r1", "u1", order)

BucketNext == decorate("r1")

BucketSpec == BucketInit /\ [][BucketNext]_vars

RECURSIVE SetsUpTo(_, _)
SetsUpTo(S, n) ==
    IF n = 0 THEN {{}}
    ELSE LET smaller == SetsUpTo(S, n - 1)
         IN  smaller \cup {s \cup {x} : s \in smaller, x \in S}

VoteInit ==
    /\ posts = SitePosts
    /\ votes \in SetsUpTo([author : {"u1", "u2"}, post : 1..3, type : VoteTypes], MaxVotes)
    /\ tags = SiteTags
    /\ users = {"u1", "u2"}
    /\ \E user \in users \cup {Anonymous}, order \in Orders(2) :
          Fetched("r1", user, order)

VoteNext == decorate("r1")

VoteSpec == VoteInit /\ [][VoteNext]_vars

-----------------------------------------------------------------------------
(* The claims.                                                              *)

Quiescent == \A r \in Workers : pc[r] \in {"idle", "done"}

ViewsOf(i) == Cardinality({k \in 1..Len(postviews) : postviews[k].post = i})

\* C1: when every request has finished and no call has raised, the view_count
\* of each toplevel post is its initial value plus the number of PostView rows
\* the requests created for it: no increment of concurrent requests is lost.
C1_NoLostIncrement ==
    (Quiescent /\ ~ raised) =>
        \A i \in Toplevel0 :
            posts[i].view_count = InitPosts[i].view_count + ViewsOf(i)

\* Two overlapping requests have both counted a view of post 1.
C1_Witness ==
    /\ Quiescent /\ ~ raised
    /\ Len(postviews) = 2
    /\ postviews[1].post = 1 /\ postviews[2].post = 1
    /\ postviews[1].ip = postviews[2].ip
    /\ postviews[1].date = postviews[2].date
    /\ posts[1].view_count = InitPosts[1].view_count + 2

\* C2: no exception raised by a call of update_post_views leaves post_view:
\* no request ends with the error the framework answers a propagated
\* exception with.
C2_NeverPropagates == \A r \in Workers : pc[r] # "error"

\* C5: no two PostView rows of the same address and post are less than
\* POST_VIEW_INTERVAL apart.
C5_OneViewPerInterval ==
    \A i, j \in 1..Len(postviews) :
        (i < j /\ postviews[i].ip = postviews[j].ip
               /\ postviews[i].post = postviews[j].post)
            => postviews[j].date - postviews[i].date >= POST_VIEW_INTERVAL

\* C6: requests one after another, no call raising.  When update_post_views
\* returns, it has appended one row (ip, post, now) and added one to the
\* view_count of that post alone if the table held no row of that address and
\* post later than since, and has changed nothing if it held one; so the rows of
\* one address and post are at least the interval apart.
C6_CountedOncePerInterval ==
    /\ \A r \in Workers :
          (pc[r] = "get_thread" /\ ~ logged[r]) =>
              LET ip == local[r].ip
                  id == local[r].post.id
                  rows == before[1]
                  views == before[2]
                  recent == \E k \in 1..Len(views) :
                                /\ views[k].ip = ip
                                /\ views[k].post = id
                                /\ views[k].date > local[r].since
              IN  IF recent
                  THEN postviews = views /\ posts = rows
                  ELSE /\ postviews = Append(views, [ip |-> ip, post |-> id, date |-> now])
                       /\ posts = [rows EXCEPT ![id].view_count = @ + 1]
    /\ \A i, j \in 1..Len(postviews) :
          (i < j /\ postviews[i].ip = postviews[j].ip
                 /\ postviews[i].post = postviews[j].post)
              => postviews[i].date + POST_VIEW_INTERVAL <= postviews[j].date

\* A view from the same address is counted again once the interval has elapsed.
C6_Witness ==
    /\ pc["r1"] = "get_thread"
    /\ Len(postviews) = 2
    /\ postviews[1].ip = postviews[2].ip
    /\ postviews[1].post = postviews[2].post
    /\ posts[postviews[1].post].view_count = SitePosts[postviews[1].post].view_count + 2

\* C7: a request for a post below the top level is answered at once with a
\* redirect to the url of the post and changes no table, whoever the user is.
C7_RedirectOnly ==
    /\ [](\A r \in Workers :
            pc[r] \notin {"idle", "done"} => is_toplevel(local[r].post))
    /\ [][\A r \in Workers :
            (pc[r] = "idle" /\ pc'[r] # "idle" /\ ~ is_toplevel(local'[r].post)) =>
                /\ pc'[r] = "done"
                /\ response'[r] = [kind |-> "redirect",
                                   to |-> get_absolute_url(local'[r].post)]
                /\ db' = db]_vars

\* An authenticated and an anonymous user have both been redirected.
C7_Witness ==
    /\ \A r \in Workers : pc[r] = "done" /\ response[r].kind = "redirect"
    /\ request["r1"].user = "u1"
    /\ request["r2"].user = Anonymous
    /\ db = <<InitPosts, << >>, InitVotes, InitTags, {"u1"}>>

ThreadIds(r) == {local[r].thread[k].id : k \in 1..Len(local[r].thread)}

CommentsOn(page) ==
    UNION {{page.comments[k].value[n].id : n \in 1..Len(page.comments[k].value)} :
              k \in 1..Len(page.comments)}

CommentsIn(rows, t) ==
    {i \in 1..Len(rows) : rows[i].type = COMMENT /\ rows[i].root = t}

TagNames == {<<"a">>, <<"b">>, <<"a", "b">>}

Filtering(t1, t2) == <<"Filtering for tags: %s", t1 \o <<"+">> \o t2>>

\* C3 as stated: the list answered to a filter of two tag names holds only
\* posts carrying both tags.
C3_OnlyPostsWithBothTags ==
    \A t1, t2 \in TagNames :
        ("messages" \in DOMAIN listing /\ listing.messages = Filtering(t1, t2)) =>
            \A k \in 1..Len(listing.posts) :
                t1 \in tags[listing.posts[k]] /\ t2 \in tags[listing.posts[k]]

\* C3: the list answered to a filter of two tag names holds the toplevel posts
\* carrying at least one of the two tags, and no other post.
C3_PostsWithEitherTag ==
    \A t1, t2 \in TagNames :
        ("messages" \in DOMAIN listing /\ listing.messages = Filtering(t1, t2)) =>
            Range(listing.posts) =
                {i \in Ids : /\ is_toplevel(PostObj(i))
                             /\ (t1 \in tags[i] \/ t2 \in tags[i])}

\* The filter "a+b" has listed a post tagged a and not b, and left out a post
\* carrying neither tag.
C3_Witness ==
    /\ "messages" \in DOMAIN listing
    /\ listing.messages = Filtering(<<"a">>, <<"b">>)
    /\ \E k \in 1..Len(listing.posts) :
          /\ <<"a">> \in tags[listing.posts[k]]
          /\ <<"b">> \notin tags[listing.posts[k]]
    /\ \E i \in Ids : is_toplevel(PostObj(i)) /\ i \notin Range(listing.posts)

\* C4: votes never change; a step that answers a list request changes no row
\* of Post, PostView or Vote; every change of Post or PostView is made by a
\* post_view request, and is the creation of one PostView row, the addition of
\* one to one view_count, or the creation of one comment.
C4_OnlyPostViewWrites ==
    [][/\ votes' = votes
       /\ listing' # listing =>
              posts' = posts /\ postviews' = postviews /\ votes' = votes
       /\ (posts' # posts \/ postviews' # postviews) =>
              \E r \in Workers :
                  /\ pc[r] \in {"create", "update", "create_comment"}
                  /\ pc'[r] # pc[r]
                  /\ \/ /\ pc[r] = "create"
                        /\ posts' = posts
                        /\ Len(postviews') = Len(postviews) + 1
                        /\ SubSeq(postviews', 1, Len(postviews)) = postviews
                     \/ /\ pc[r] = "update"
                        /\ postviews' = postviews
                        /\ \E i \in Ids :
                              posts' = [posts EXCEPT ![i].view_count = @ + 1]
                     \/ /\ pc[r] = "create_comment"
                        /\ postviews' = postviews
                        /\ Len(posts') = Len(posts) + 1
                        /\ SubSeq(posts', 1, Len(posts)) = posts
                        /\ posts'[Len(posts')].type = COMMENT]_vars

\* A list of posts has been answered after a post_view request has written its
\* three kinds of rows.
C4_Witness ==
    /\ "messages" \in DOMAIN listing
    /\ Len(listing.posts) > 0
    /\ Len(postviews) = 1
    /\ Len(posts) = Len(SitePosts) + 1
    /\ posts[1].view_count = SitePosts[1].view_count + 1
    /\ votes = SiteVotes

\* sub is the subsequence of seq at the positions S, in the order of seq.
Picks(sub, seq, S) ==
    /\ Len(sub) = Cardinality(S)
    /\ \A k \in S : sub[Cardinality({j \in S : j <= k})] = seq[k]

CommentsAt(thread, parent) ==
    {k \in 1..Len(thread) : thread[k].type = COMMENT /\ thread[k].parent = parent}

First(S) == CHOOSE k \in S : \A j \in S : k <= j

\* C8: post.answers is the subsequence of the answers of the thread;
\* post.comments has one key for each parent of a comment of the thread, in the
\* order of the first comment of each parent, and under each key the comments
\* of that parent, none missing, none twice, in the order of the thread.
C8_Bucketing ==
    \A r \in Workers :
        local[r].page # None =>
            LET thread == local[r].page.thread
                answers == local[r].page.answers
                comments == local[r].page.comments
            IN  /\ [k \in 1..Len(thread) |-> thread[k].id]
                      = [k \in 1..Len(before[3]) |-> before[3][k].id]
                /\ Picks(answers, thread,
                         {k \in 1..Len(thread) : thread[k].type = ANSWER})
                /\ \A i, j \in 1..Len(comments) :
                      comments[i].key = comments[j].key => i = j
                /\ {comments[i].key : i \in 1..Len(comments)}
                      = {thread[k].parent :
                            k \in {n \in 1..Len(thread) : thread[n].type = COMMENT}}
                /\ \A i \in 1..Len(comments) :
                      /\ comments[i].value # << >>
                      /\ Picks(comments[i].value, thread,
                               CommentsAt(thread, comments[i].key))
                /\ \A i, j \in 1..Len(comments) :
                      i < j => First(CommentsAt(thread, comments[i].key))
                                  < First(CommentsAt(thread, comments[j].key))

\* A page with an answer and two comments of different parents.
C8_Witness ==
    /\ local["r1"].page # None
    /\ Len(local["r1"].page.answers) = 1
    /\ Len(local["r1"].page.comments) = 2
    /\ local["r1"].page.comments[1].key > local["r1"].page.comments[2].key

\* C9: on the page of an authenticated user a post of the thread, and the root
\* post, has has_vote exactly when the user has a vote of type UP on it and
\* has_bookmark exactly when the user has a vote of type BOOKMARK on it; on
\* the page of an anonymous user both are false on every post.
C9_VoteFlags ==
    \A r \in Workers :
        local[r].page # None =>
            LET page == local[r].page
                user == request[r].user
                Has(i, type) ==
                    /\ is_authenticated(user)
                    /\ [author |-> user, post |-> i, type |-> type] \in votes
            IN  /\ [k \in 1..Len(page.thread) |-> page.thread[k].id]
                      = [k \in 1..Len(before[3]) |-> before[3][k].id]
                /\ \A k \in 1..Len(page.thread) :
                      /\ page.thread[k].has_vote = Has(page.thread[k].id, UP)
                      /\ page.thread[k].has_bookmark = Has(page.thread[k].id, BOOKMARK)
                /\ page.has_vote = Has(page.id, UP)
                /\ page.has_bookmark = Has(page.id, BOOKMARK)

\* The root post carries the user's vote next to another user's bookmark.
C9_Witness ==
    /\ local["r1"].page # None
    /\ request["r1"].user = "u1"
    /\ local["r1"].page.has_vote /\ ~ local["r1"].page.has_bookmark
    /\ [author |-> "u2", post |-> 1, type |-> BOOKMARK] \in votes

====
